---- MODULE Spec2Model ----
(***************************************************************************)
(* Gelato bulk product creator.                                            *)
(*                                                                         *)
(*   Spec       the gelato-bulk-create edge function: serve and            *)
(*              pollProductStatus, in its two revisions                    *)
(*              (supabase/functions/gelato-bulk-create/index.ts and the    *)
(*              revision kept in src/lib/supabaseFetch.ts).                *)
(***************************************************************************)
EXTENDS Integers, Sequences, FiniteSets, TLC

(***************************************************************************)
(* Bounds of the model.                                                    *)
(***************************************************************************)
MaxProducts == 2

\* largest natural width and height of an uploaded image, in pixels
MaxSrc == 5

\* largest width and height of a print area, in half pixels
MaxRaw2 == 10

\* largest number of uploaded images
MaxImages == 2

\* largest number of variants of a template
MaxVariants == 2

\* largest number of image and variant pairs of one run
MaxTasks == 4

\* largest number of times the Create button is clicked again after a run
MaxReruns == 1

(***************************************************************************)
(* Program constants.                                                      *)
(***************************************************************************)
maxAttempts == 30

Titles == {"a", "b"}

\* the two revisions of the edge function
EdgeVersions == {"index", "trim"}

\* product statuses the Gelato API may report in an ok status response
ApiStatuses == {"created", "publishing", "active", "publishing_error"}

VARIABLES
  ePc,            \* position of the serve handler
  eVersion,       \* revision of the edge function that is deployed
  request,        \* the request being served
  i,              \* serve: loop index over products (0-based, as in the code)
  results,        \* serve: results array
  attempt,        \* pollProductStatus: loop counter
  response,       \* the HTTP response of serve: [status, body]
  createLog,      \* history: product indices in the order create requests were sent
  inFlight,       \* history: products whose create was sent and that have no result yet
  pollRequests,   \* history: status requests sent for the product being polled
  polled,         \* history: product indices for which polling was started
  firstTerminal,  \* history: first terminal status an ok response carried in this poll
  slept           \* history: the poll interval elapsed since the last status request

edgeVars == <<ePc, eVersion, request, i, results, attempt, response, createLog,
              inFlight, pollRequests, polled, firstTerminal, slept>>

\* the fit pipeline: one run of transformForVariant / drawFit
VARIABLES
  fPc,        \* "input": the arguments are chosen, "drawn": the image was drawn
  fVersion,   \* which revision draws: transformForVariant or drawFit
  fMode,      \* processingOptions.fitMode
  fUpscale,   \* processingOptions.upscale
  srcW,       \* natural width of the uploaded image
  srcH,       \* natural height of the uploaded image
  rawW2,      \* width of the variant's print area before rounding, in half pixels
  rawH2,      \* height of the variant's print area before rounding, in half pixels
  canvas,     \* the output canvas: [w, h], or NoCanvas when no image is generated
  crop,       \* source rectangle handed to drawImage, in units of 1/den pixel
  dest        \* destination rectangle handed to drawImage, in units of 1/den pixel

fitVars == <<fPc, fVersion, fMode, fUpscale, srcW, srcH, rawW2, rawH2, canvas, crop,
             dest>>

\* the BulkCreator component during one invocation of handleCreateProducts
VARIABLES
  cPc,               \* "ready", then the await the handler is at, then "ended"
  cVersion,          \* revision of the component
  images,            \* images state: the ids of the uploaded images
  selectedProduct,   \* selectedProduct state: [set, uuid, complete]
  fitMode,           \* processingOptions.fitMode
  isCreating,        \* isCreating state
  creationProgress,  \* creationProgress state
  createdProducts,   \* createdProducts state: the statuses of the results
  tpl,               \* the template getTemplate returned, one of Templates
  tasks,             \* per image and payload variant: where its upload stands
  uploads,           \* history: storage uploads sent per image and variant
  variantEntries,    \* part003: per image, the variantEntries array of its callback
  resolved,          \* history: the images in the order their callbacks resolved
  sent,              \* history: per credentials a session may hold, the requests
                     \* this invocation sends in that session
  bulkStatus,        \* history: HTTP status of the bulk-create response, if any
  payload,           \* history: the products handed to bulkCreate
  runResults,        \* history: the results this invocation received
  toasts             \* history: the toasts this invocation emitted

clientVars == <<cPc, cVersion, images, selectedProduct, fitMode, isCreating,
                creationProgress, createdProducts, tpl, tasks, uploads,
                variantEntries, resolved, sent, bulkStatus, payload, runResults,
                toasts>>

\* the wizard of the BulkCreator component, from mount on; it shares cVersion,
\* images, selectedProduct, isCreating, creationProgress and createdProducts with
\* handleCreateProducts
VARIABLES
  wPc,            \* "mount": rendered once, effects not yet run; "mounted"
  currentStep,    \* currentStep state
  isConnected,    \* isConnected state
  credentials,    \* credentials state
  stored,         \* localStorage item holding the saved credentials
  connecting,     \* ApiConnection: the credentials of the pending handleConnect
  pendingLoads    \* ProductSelector: currentStep as seen by each pending product load

wizardVars == <<wPc, currentStep, isConnected, credentials, stored, connecting,
                pendingLoads>>

\* the callbacks of the earlier invocations of handleCreateProducts
VARIABLES
  stale           \* per earlier invocation, where its image and variant callbacks
                  \* stood when the button was clicked again, and stand now

rerunVars == <<stale>>

\* makeVariantImage (part003): one call on one image file
VARIABLES
  mPc,         \* "off", "called", then the await the call is at ("probe": the load
               \* of the first Image in fileToImage, "encoding": canvas.toBlob),
               \* then "done" or "failed"
  fileW,       \* natural width of the picture in the file
  fileH,       \* natural height of the picture in the file
  imgState,    \* the Image object fileToImage returns: "none" (not yet created),
               \* "pending" (src set, not loaded), "available", "broken"
  seenW,       \* src.width as drawFit read it
  seenH,       \* src.height as drawFit read it
  revoked      \* URL.revokeObjectURL(img.src) was called

loadVars == <<mPc, fileW, fileH, imgState, seenW, seenH, revoked>>

\* the client state only handleCreateProducts writes
runVars == <<cPc, fitMode, tpl, tasks, uploads, variantEntries, resolved, sent,
             bulkStatus, payload, runResults, toasts>>

otherThanEdge == <<fitVars, clientVars, wizardVars, rerunVars, loadVars>>
otherThanFit == <<edgeVars, clientVars, wizardVars, rerunVars, loadVars>>
otherThanClient == <<edgeVars, fitVars, wizardVars, rerunVars, loadVars>>
otherThanWizard == <<edgeVars, fitVars, runVars, rerunVars, loadVars>>
otherThanRerun == <<edgeVars, fitVars, wizardVars, loadVars>>
otherThanLoad == <<edgeVars, fitVars, clientVars, wizardVars, rerunVars>>

vars == <<edgeVars, fitVars, clientVars, wizardVars, rerunVars, loadVars>>

----------------------------------------------------------------------------
(***************************************************************************)
(* Helpers                                                                 *)
(***************************************************************************)
SeqsUpTo(S, n) == UNION {[1..k -> S] : k \in 0..n}

NoResponse == [status |-> 0, body |-> "none"]

NoRequest == [method |-> "none", configured |-> FALSE, wellFormed |-> FALSE,
              products |-> <<>>]

Requests ==
  [method : {"OPTIONS", "POST"}, configured : BOOLEAN, wellFormed : BOOLEAN,
   products : SeqsUpTo(Titles, MaxProducts)]

\* products[i] of the code (0-based index)
Product(k) == request.products[k + 1]

----------------------------------------------------------------------------
(***************************************************************************)
(* pollProductStatus                                                       *)
(***************************************************************************)

\* status === 'active' || status === 'publishing_error', mutated: publishing_error dropped
IsTerminalStatusOnlyActive(status) == status = "active"

\* status === 'active' || status === 'publishing_error'
IsTerminalStatus(status) == status = "active" \/ status = "publishing_error"

\* results.push({ title, status, error?, ... }) followed by the next loop iteration
PushResult(status, error) ==
  /\ results' = Append(results, [title |-> Product(i), status |-> status,
                                 error |-> error])
  /\ inFlight' = inFlight \ {i}
  /\ i' = i + 1
  /\ ePc' = "loop"

\* the loop condition, mutated: attempt <= maxAttempts
PollFetchOffByOne ==
  /\ UNCHANGED otherThanEdge
  /\ ePc = "pollLoop"
  /\ attempt <= maxAttempts
  /\ ePc' = "pollAwait"
  /\ pollRequests' = pollRequests + 1
  /\ slept' = FALSE
  /\ UNCHANGED <<eVersion, request, i, results, attempt, response, createLog,
                 inFlight, polled, firstTerminal>>

\* for (let attempt = 0; attempt < maxAttempts; ...) { fetch(...)
PollFetch ==
  /\ UNCHANGED otherThanEdge
  /\ ePc = "pollLoop"
  /\ attempt < maxAttempts
  /\ ePc' = "pollAwait"
  /\ pollRequests' = pollRequests + 1
  /\ slept' = FALSE
  /\ UNCHANGED <<eVersion, request, i, results, attempt, response, createLog,
                 inFlight, polled, firstTerminal>>

\* the status request resolves; ok with a terminal status returns, anything else
\* falls through to the setTimeout wait
PollResponse(ok, status) ==
  /\ UNCHANGED otherThanEdge
  /\ ePc = "pollAwait"
  /\ firstTerminal' =
       IF firstTerminal = "none" /\ ok /\ status \in {"active", "publishing_error"}
       THEN status ELSE firstTerminal
  /\ IF ok /\ IsTerminalStatus(status)
     THEN /\ PushResult(status, "none")
          /\ UNCHANGED attempt
     ELSE /\ ePc' = "pollWait"
          /\ UNCHANGED <<i, results, inFlight, attempt>>
  /\ UNCHANGED <<eVersion, request, response, createLog, pollRequests, polled, slept>>

\* fetch (or response.json()) throws: the catch logs, the wait is skipped and the
\* for statement increments attempt
PollThrows ==
  /\ UNCHANGED otherThanEdge
  /\ ePc = "pollAwait"
  /\ attempt' = attempt + 1
  /\ ePc' = "pollLoop"
  /\ UNCHANGED <<eVersion, request, i, results, response, createLog, inFlight,
                 pollRequests, polled, firstTerminal, slept>>

\* await new Promise(resolve => setTimeout(resolve, pollInterval)) elapses
PollWait ==
  /\ UNCHANGED otherThanEdge
  /\ ePc = "pollWait"
  /\ slept' = TRUE
  /\ attempt' = attempt + 1
  /\ ePc' = "pollLoop"
  /\ UNCHANGED <<eVersion, request, i, results, response, createLog, inFlight,
                 pollRequests, polled, firstTerminal>>

\* the loop ends: return { status: 'timeout' }
PollTimeout ==
  /\ UNCHANGED otherThanEdge
  /\ ePc = "pollLoop"
  /\ attempt >= maxAttempts
  /\ PushResult("timeout", "none")
  /\ UNCHANGED <<eVersion, request, attempt, response, createLog, pollRequests,
                 polled, firstTerminal, slept>>

----------------------------------------------------------------------------
(***************************************************************************)
(* serve                                                                   *)
(***************************************************************************)

\* the locals of the last pollProductStatus call, and what was recorded about
\* it, are gone once serve goes on after the call
PollLocalsGone ==
  /\ attempt' = 0
  /\ pollRequests' = 0
  /\ firstTerminal' = "none"
  /\ slept' = FALSE

\* results.length > 0 && results.every(r => r.status !== "active")
AllError(res) == Len(res) > 0 /\ \A k \in 1..Len(res) : res[k].status # "active"

\* status of the response that carries the results
ResultsStatus(version, res) ==
  IF version = "trim" /\ AllError(res) THEN 400 ELSE 200

\* a request arrives: OPTIONS is answered at once, missing secrets or a body that
\* does not parse end in the outer catch (500), otherwise the loop starts
Serve(req, version) ==
  /\ UNCHANGED otherThanEdge
  /\ ePc = "idle"
  /\ request' = req
  /\ eVersion' = version
  /\ IF req.method = "OPTIONS"
     THEN /\ response' = [status |-> 200, body |-> "null"]
          /\ ePc' = "done"
     ELSE IF ~req.configured \/ ~req.wellFormed
     THEN /\ response' = [status |-> 500, body |-> "error"]
          /\ ePc' = "done"
     ELSE /\ ePc' = "loop"
          /\ UNCHANGED response
  /\ UNCHANGED <<i, results, attempt, createLog, inFlight, pollRequests, polled,
                 firstTerminal, slept>>

\* for (let i = 0; i < products.length; i++) { ... fetch(products:create-from-template)
CreateFetch ==
  /\ UNCHANGED otherThanEdge
  /\ ePc = "loop"
  /\ i < Len(request.products)
  /\ createLog' = Append(createLog, i)
  /\ inFlight' = inFlight \cup {i}
  /\ ePc' = "createAwait"
  /\ PollLocalsGone
  /\ UNCHANGED <<eVersion, request, i, results, response, polled>>

\* !createResponse.ok, mutated: push an error result and break
CreateNotOkBreak ==
  /\ UNCHANGED otherThanEdge
  /\ ePc = "createAwait"
  /\ results' = Append(results, [title |-> Product(i), status |-> "error",
                                 error |-> "http"])
  /\ inFlight' = inFlight \ {i}
  /\ i' = Len(request.products)
  /\ ePc' = "loop"
  /\ UNCHANGED <<eVersion, request, attempt, response, createLog, pollRequests,
                 polled, firstTerminal, slept>>

\* !createResponse.ok: push an error result and continue
CreateNotOk ==
  /\ UNCHANGED otherThanEdge
  /\ ePc = "createAwait"
  /\ PushResult("error", "http")
  /\ UNCHANGED <<eVersion, request, attempt, response, createLog, pollRequests,
                 polled, firstTerminal, slept>>

\* fetch, createResponse.text() or createResponse.json() throws, mutated: the
\* inner catch sends the create request of the same product again
CreateThrowsRetried ==
  /\ UNCHANGED otherThanEdge
  /\ ePc = "createAwait"
  /\ ePc' = "loop"
  /\ UNCHANGED <<eVersion, request, i, results, attempt, response, createLog,
                 inFlight, pollRequests, polled, firstTerminal, slept>>

\* fetch, createResponse.text() or createResponse.json() throws: the inner catch
\* pushes an error result
CreateThrows ==
  /\ UNCHANGED otherThanEdge
  /\ ePc = "createAwait"
  /\ PushResult("error", "thrown")
  /\ UNCHANGED <<eVersion, request, attempt, response, createLog, pollRequests,
                 polled, firstTerminal, slept>>

\* the product was created, mutated: pollProductStatus is not awaited and the loop
\* moves on
CreateOkNotAwaited ==
  /\ UNCHANGED otherThanEdge
  /\ ePc = "createAwait"
  /\ polled' = polled \cup {i}
  /\ i' = i + 1
  /\ ePc' = "loop"
  /\ UNCHANGED <<eVersion, request, results, attempt, response, createLog, inFlight,
                 pollRequests, firstTerminal, slept>>

\* the product was created: await pollProductStatus(...)
CreateOk ==
  /\ UNCHANGED otherThanEdge
  /\ ePc = "createAwait"
  /\ polled' = polled \cup {i}
  /\ attempt' = 0
  /\ pollRequests' = 0
  /\ firstTerminal' = "none"
  /\ slept' = FALSE
  /\ ePc' = "pollLoop"
  /\ UNCHANGED <<eVersion, request, i, results, response, createLog, inFlight>>

\* the loop is over: return new Response(JSON.stringify({ results }), ...)
Respond ==
  /\ UNCHANGED otherThanEdge
  /\ ePc = "loop"
  /\ i >= Len(request.products)
  /\ response' = [status |-> ResultsStatus(eVersion, results), body |-> "results"]
  /\ ePc' = "done"
  /\ PollLocalsGone
  /\ UNCHANGED <<eVersion, request, i, results, createLog, inFlight, polled>>

----------------------------------------------------------------------------
(***************************************************************************)
(* The image fit pipeline: transformForVariant (with the target size that  *)
(* handleCreateProducts computes for it) and drawFit (with the size        *)
(* inferPlaceholderSize hands it).  Pixel quantities are exact rationals:  *)
(* a rectangle [x, y, w, h, den] has its fields in units of 1/den pixel.   *)
(***************************************************************************)
FitVersions == {"transformForVariant", "drawFit"}

FitModes == {"stretch", "preserve", "exact"}

NoCanvas == [w |-> 0, h |-> 0]

NoRect == [x |-> 0, y |-> 0, w |-> 0, h |-> 0, den |-> 1]

Min(a, b) == IF a < b THEN a ELSE b

Max(a, b) == IF a > b THEN a ELSE b

\* Math.round of the exact value num / den (den > 0): floor(x + 0.5)
JsRound(num, den) == (2 * num + den) \div (2 * den)

\* Math.round of a product or quotient of doubles whose exact value is num / den:
\* when the exact value lies half way between two integers the double that is
\* rounded may lie on either side of it, and tieUp says on which
RoundF(num, den, tieUp) ==
  IF (2 * num) % (2 * den) = den
  THEN (IF tieUp THEN JsRound(num, den) ELSE JsRound(num, den) - 1)
  ELSE JsRound(num, den)

\* Math.round(inches[0] * DPI): the target size of a variant in pixels
RoundedTarget(raw2) == JsRound(raw2, 2)

\* canvas size of transformForVariant, mutated: the upscale flag is inverted
CanvasDimInverted(target, natural, upscale) ==
  IF ~upscale THEN JsRound(target, 1) ELSE Min(JsRound(target, 1), natural)

\* upscale ? Math.round(targetW) : Math.min(Math.round(targetW), img.naturalWidth)
CanvasDim(target, natural, upscale) ==
  IF upscale THEN JsRound(target, 1) ELSE Min(JsRound(target, 1), natural)

\* Math.max(1, Math.round(targetW)) of drawFit
CanvasDimDrawFit(raw2) == Max(1, JsRound(raw2, 2))

\* srcR > dstR, that is sw / sh > cw / ch
WiderThanCanvas(sw, sh, cw, ch) == sw * ch > cw * sh

\* the COVER branch of transformForVariant, mutated: the two cases are swapped
StretchRectSwapped(sw, sh, cw, ch, tieUp) ==
  LET drawW == IF WiderThanCanvas(sw, sh, cw, ch) THEN cw
               ELSE RoundF(ch * sw, sh, tieUp)
      drawH == IF WiderThanCanvas(sw, sh, cw, ch) THEN RoundF(cw * sh, sw, tieUp)
               ELSE ch
  IN [x |-> JsRound(cw - drawW, 2), y |-> JsRound(ch - drawH, 2),
      w |-> drawW, h |-> drawH, den |-> 1]

\* the COVER branch of transformForVariant
StretchRect(sw, sh, cw, ch, tieUp) ==
  LET drawW == IF WiderThanCanvas(sw, sh, cw, ch) THEN RoundF(ch * sw, sh, tieUp)
               ELSE cw
      drawH == IF WiderThanCanvas(sw, sh, cw, ch) THEN ch
               ELSE RoundF(cw * sh, sw, tieUp)
  IN [x |-> JsRound(cw - drawW, 2), y |-> JsRound(ch - drawH, 2),
      w |-> drawW, h |-> drawH, den |-> 1]

\* the PRESERVE branch of transformForVariant, mutated: the draw is not centred
PreserveRectTopLeft(sw, sh, cw, ch, tieUp) ==
  LET drawW == IF WiderThanCanvas(sw, sh, cw, ch) THEN cw
               ELSE RoundF(ch * sw, sh, tieUp)
      drawH == IF WiderThanCanvas(sw, sh, cw, ch) THEN RoundF(cw * sh, sw, tieUp)
               ELSE ch
  IN [x |-> 0, y |-> 0, w |-> drawW, h |-> drawH, den |-> 1]

\* the PRESERVE branch of transformForVariant
PreserveRect(sw, sh, cw, ch, tieUp) ==
  LET drawW == IF WiderThanCanvas(sw, sh, cw, ch) THEN cw
               ELSE RoundF(ch * sw, sh, tieUp)
      drawH == IF WiderThanCanvas(sw, sh, cw, ch) THEN RoundF(cw * sh, sw, tieUp)
               ELSE ch
  IN [x |-> JsRound(cw - drawW, 2), y |-> JsRound(ch - drawH, 2),
      w |-> drawW, h |-> drawH, den |-> 1]

\* the whole source image, as the source rectangle of drawImage
WholeSource(sw, sh) == [x |-> 0, y |-> 0, w |-> sw, h |-> sh, den |-> 1]

\* drawFit, mode stretch: the part of the source that is drawn onto the whole canvas
\* (sWidth = sh * targetRatio, sx = (sw - sWidth) / 2, or the same for the height)
CoverCrop(sw, sh, cw, ch) ==
  IF WiderThanCanvas(sw, sh, cw, ch)
  THEN [x |-> sw * ch - sh * cw, y |-> 0, w |-> 2 * sh * cw, h |-> 2 * ch * sh,
        den |-> 2 * ch]
  ELSE [x |-> 0, y |-> sh * cw - sw * ch, w |-> 2 * cw * sw, h |-> 2 * sw * ch,
        den |-> 2 * cw]

\* drawFit, mode preserve: scale = canvas.width / sw or canvas.height / sh,
\* dw = Math.round(sw * scale), dh = Math.round(sh * scale), centred
ContainRect(sw, sh, cw, ch, tieW, tieH) ==
  LET dw == IF WiderThanCanvas(sw, sh, cw, ch) THEN RoundF(sw * cw, sw, tieW)
            ELSE RoundF(sw * ch, sh, tieW)
      dh == IF WiderThanCanvas(sw, sh, cw, ch) THEN RoundF(sh * cw, sw, tieH)
            ELSE RoundF(sh * ch, sh, tieH)
  IN [x |-> JsRound(cw - dw, 2), y |-> JsRound(ch - dh, 2), w |-> dw, h |-> dh,
      den |-> 1]

\* drawFit, mode exact: the source is drawn unscaled, centred
ExactRect(sw, sh, cw, ch) ==
  [x |-> cw - sw, y |-> ch - sh, w |-> 2 * sw, h |-> 2 * sh, den |-> 2]

\* transformForVariant(file, targetW, targetH, fitMode, upscale) with
\* targetW = Math.round(inches[0] * DPI), targetH = Math.round(inches[1] * DPI)
TransformForVariant(tieUp) ==
  /\ fPc = "input"
  /\ fVersion = "transformForVariant"
  /\ fPc' = "drawn"
  /\ IF fMode = "exact"
     THEN UNCHANGED <<canvas, crop, dest>>
     ELSE LET cw == CanvasDim(RoundedTarget(rawW2), srcW, fUpscale)
              ch == CanvasDim(RoundedTarget(rawH2), srcH, fUpscale)
          IN /\ canvas' = [w |-> cw, h |-> ch]
             /\ crop' = WholeSource(srcW, srcH)
             /\ dest' = IF fMode = "stretch"
                        THEN StretchRect(srcW, srcH, cw, ch, tieUp)
                        ELSE PreserveRect(srcW, srcH, cw, ch, tieUp)
  /\ UNCHANGED <<fVersion, fMode, fUpscale, srcW, srcH, rawW2, rawH2>>
  /\ UNCHANGED otherThanFit

\* drawFit(img, w, h, mode) as makeVariantImage calls it
DrawFit(tieW, tieH) ==
  /\ fPc = "input"
  /\ fVersion = "drawFit"
  /\ fPc' = "drawn"
  /\ LET cw == CanvasDimDrawFit(rawW2)
         ch == CanvasDimDrawFit(rawH2)
     IN /\ canvas' = [w |-> cw, h |-> ch]
        /\ crop' = IF fMode = "stretch" THEN CoverCrop(srcW, srcH, cw, ch)
                   ELSE WholeSource(srcW, srcH)
        /\ dest' = CASE fMode = "exact" -> ExactRect(srcW, srcH, cw, ch)
                     [] fMode = "stretch" ->
                          [x |-> 0, y |-> 0, w |-> cw, h |-> ch, den |-> 1]
                     [] OTHER -> ContainRect(srcW, srcH, cw, ch, tieW, tieH)
  /\ UNCHANGED <<fVersion, fMode, fUpscale, srcW, srcH, rawW2, rawH2>>
  /\ UNCHANGED otherThanFit

\* no image is being fitted
FitIdle ==
  /\ fPc = "off"
  /\ fVersion = "transformForVariant"
  /\ fMode = "stretch"
  /\ fUpscale = TRUE
  /\ srcW = 1 /\ srcH = 1 /\ rawW2 = 2 /\ rawH2 = 2
  /\ canvas = NoCanvas /\ crop = NoRect /\ dest = NoRect

\* an image of any size is about to be fitted to a print area of any size
FitStart ==
  /\ fPc = "input"
  /\ fVersion \in FitVersions
  /\ fMode \in FitModes
  /\ fUpscale \in BOOLEAN
  /\ srcW \in 1..MaxSrc /\ srcH \in 1..MaxSrc
  /\ rawW2 \in 1..MaxRaw2 /\ rawH2 \in 1..MaxRaw2
  /\ canvas = NoCanvas /\ crop = NoRect /\ dest = NoRect

FitNext ==
  \/ \E tieUp \in BOOLEAN : TransformForVariant(tieUp)
  \/ \E tieW \in BOOLEAN, tieH \in BOOLEAN : DrawFit(tieW, tieH)

----------------------------------------------------------------------------
(***************************************************************************)
(* handleCreateProducts, in the four revisions of the BulkCreator          *)
(* component:                                                              *)
(*   "bulkCreator"    src/components/bulk-creator.tsx: no template fetch,  *)
(*                    one upload per image                                 *)
(*   "apiConnection"  the revision kept in api-connection.tsx: template    *)
(*                    fetch, one variant, one upload per image             *)
(*   "part002"        every template variant, transformForVariant,         *)
(*                    Promise.all over the variants                        *)
(*   "part003"        every template variant, makeVariantImage, a for      *)
(*                    loop over the variants                               *)
(***************************************************************************)
ClientVersions == {"bulkCreator", "apiConnection", "part002", "part003"}

ResultStatuses == {"error", "active", "publishing_error", "timeout"}

\* v.imagePlaceholders?.[0]?.name of a template variant: "" when absent or empty
VariantPlaceholders == {"", "variantSlot"}

\* tpl.imagePlaceholders?.[0]?.name: "" when absent or empty
TemplatePlaceholders == {"", "templateSlot"}

\* the templates getTemplate may return: validId says tpl.id (and the id of its
\* variants) is a UUID, variants is tpl.variants.length, placeholders[v] the first
\* placeholder name of variant v, placeholder the template's own first placeholder
\* name, wanted the first variant whose title is selectedProduct.variants[0]
\* (0: none)
Templates ==
  UNION {[validId : BOOLEAN, variants : {n},
          placeholders : [1..n -> VariantPlaceholders],
          placeholder : TemplatePlaceholders,
          wanted : 0..n] : n \in 0..MaxVariants}

NoTemplate == [validId |-> FALSE, variants |-> 0, placeholders |-> <<>>,
               placeholder |-> "", wanted |-> 0]

NoTasks == [p \in {} |-> "waiting"]

\* what the user may type into the connection form
Credentials == {[apiKey |-> "keyA", storeName |-> "storeA"],
                [apiKey |-> "keyB", storeName |-> "storeB"]}

\* useState<{ apiKey; storeName } | null>(null)
NoCredentials == [apiKey |-> "", storeName |-> ""]

\* no response to bulkCreate has arrived
NoStatus == 0

\* no request was sent, whatever the credentials of the session
NoneSent == [c \in Credentials |-> {}]

\* import.meta.env.VITE_SUPABASE_ANON_KEY
AnonKey == "anonKey"

\* import.meta.env.VITE_GELATO_STORE_ID
EnvStoreId == "envStoreId"

\* getTemplate(selectedProduct.id) in a session whose credentials state is creds
TemplateRequest(creds) ==
  [kind |-> "getTemplate", authorization |-> AnonKey, storeId |-> "", file |-> <<>>]

\* supabase.storage.from("designs").upload(destPath, file, ...) for image k,
\* variant v in a session whose credentials state is creds
UploadRequest(creds, k, v) ==
  [kind |-> "upload", authorization |-> AnonKey, storeId |-> "", file |-> <<k, v>>]

\* bulkCreate({ templateId, publish, products, storeId }), mutated: the store name
\* the user entered is sent as storeId
BulkRequestWithStoreName(creds) ==
  [kind |-> "bulkCreate", authorization |-> AnonKey, storeId |-> creds.storeName,
   file |-> <<>>]

\* bulkCreate({ templateId, publish, products, storeId: STORE_ID }) in a session
\* whose credentials state is creds; bulkCreator sends no storeId; the products are
\* kept in payload
BulkRequest(creds) ==
  [kind |-> "bulkCreate", authorization |-> AnonKey,
   storeId |-> IF cVersion = "bulkCreator" THEN "" ELSE EnvStoreId, file |-> <<>>]

NoUploads == [p \in {} |-> 0]

Toast(title, variant) == [title |-> title, variant |-> variant]

\* results.filter(r => r.status === "active").length > 0
HasActive(res) == \E k \in 1..Len(res) : res[k] = "active"

\* the image and payload-variant pairs of a run
Pairs(n, m) == (1..n) \X (1..m)

\* where the work on image k, variant v stands when Promise.all(images.map(...))
\* returns its promise, mutated: the images are awaited one after the other
InitialTaskSequential(k, v) ==
  IF k > 1 THEN "waiting"
  ELSE CASE cVersion \in {"bulkCreator", "apiConnection"} -> "uploading"
         [] cVersion = "part002" ->
              (IF fitMode = "exact" THEN "uploading" ELSE "transform")
         [] OTHER -> (IF v = 1 THEN "transform" ELSE "waiting")

\* where the work on image k, variant v stands when Promise.all(images.map(...))
\* returns its promise: every callback has run up to its first pending await
InitialTask(k, v) ==
  CASE cVersion \in {"bulkCreator", "apiConnection"} -> "uploading"
    [] cVersion = "part002" ->
         (IF fitMode = "exact" THEN "uploading" ELSE "transform")
    [] OTHER -> (IF v = 1 THEN "transform" ELSE "waiting")

\* Promise.all(images.map(async (image, index) => ...)) is called with m variants
\* per product
StartUploads(m) ==
  /\ tasks' = [p \in Pairs(Len(images), m) |-> InitialTask(p[1], p[2])]
  /\ variantEntries' = [k \in 1..Len(images) |-> <<>>]
  /\ resolved' = <<>>
  /\ sent' = [c \in Credentials |->
               sent[c] \cup {UploadRequest(c, p[1], p[2]) :
                               p \in {q \in Pairs(Len(images), m) :
                                        InitialTask(q[1], q[2]) = "uploading"}}]
  /\ uploads' = [p \in Pairs(Len(images), m) |->
                   IF InitialTask(p[1], p[2]) = "uploading" THEN 1 ELSE 0]
  /\ cPc' = "uploads"

\* the catch block of handleCreateProducts, mutated: isCreating is left as it is
CatchKeepsCreating ==
  /\ isCreating' = isCreating
  /\ creationProgress' = IF cVersion = "part003" THEN creationProgress ELSE 0
  /\ toasts' = Append(toasts, Toast("Error creating products", "destructive"))
  /\ cPc' = "ended"

\* the catch block of handleCreateProducts (and, in part003, its finally)
Catch ==
  /\ isCreating' = FALSE
  /\ creationProgress' = IF cVersion = "part003" THEN creationProgress ELSE 0
  /\ toasts' = Append(toasts, Toast("Error creating products", "destructive"))
  /\ cPc' = "ended"

\* the toast after an ok bulkCreate response, mutated: always the success toast
ResultToastAlwaysSuccess(res) == Toast("Products Created", "default")

\* successCount > 0 ? success toast : "Product Creation Failed"
ResultToast(res) ==
  IF HasActive(res) THEN Toast("Products Created", "default")
  ELSE Toast("Product Creation Failed", "destructive")

\* isUuid(selectedProduct.id), mutated: every id passes
IsUuidAnyId == TRUE

\* isUuid(selectedProduct.id)
IsUuid == selectedProduct.uuid

\* the Create button is clicked
HandleCreateProducts ==
  /\ cPc = "ready"
  /\ IF images = <<>> \/ ~selectedProduct.set
     THEN \* if (!images.length || !selectedProduct) return;
          /\ cPc' = "ended"
          /\ UNCHANGED <<isCreating, creationProgress, toasts, tasks, uploads,
                         variantEntries, resolved, sent>>
     ELSE IF cVersion = "bulkCreator"
     THEN /\ creationProgress' = 0
          /\ IF ~selectedProduct.complete
             THEN /\ toasts' = Append(toasts, Toast("Template incompleto", "destructive"))
                  /\ isCreating' = FALSE
                  /\ cPc' = "ended"
                  /\ UNCHANGED <<tasks, uploads, variantEntries, resolved, sent>>
             ELSE /\ isCreating' = TRUE
                  /\ StartUploads(1)
                  /\ UNCHANGED toasts
     ELSE IF ~IsUuid
     THEN /\ toasts' = Append(toasts, Toast("Invalid template", "destructive"))
          /\ isCreating' = IF cVersion = "apiConnection" THEN FALSE ELSE isCreating
          /\ cPc' = "ended"
          /\ UNCHANGED <<creationProgress, tasks, uploads, variantEntries, resolved,
                         sent>>
     ELSE \* setIsCreating(true); setCreationProgress(0); await getTemplate(...)
          /\ isCreating' = TRUE
          /\ creationProgress' = 0
          /\ cPc' = "template"
          /\ sent' = [c \in Credentials |-> sent[c] \cup {TemplateRequest(c)}]
          /\ UNCHANGED <<toasts, tasks, uploads, variantEntries, resolved>>
  /\ UNCHANGED <<cVersion, bulkStatus, images, selectedProduct, fitMode, createdProducts, tpl,
                 payload, runResults>>
  /\ UNCHANGED otherThanClient

\* getTemplate rejects: the function answered with a non-ok status or the fetch failed
TemplateThrows ==
  /\ cPc = "template"
  /\ Catch
  /\ UNCHANGED <<cVersion, bulkStatus, images, selectedProduct, fitMode, createdProducts, tpl,
                 tasks, uploads, variantEntries, resolved, sent, payload, runResults>>
  /\ UNCHANGED otherThanClient

\* getTemplate resolves with the template t; only the apiConnection revision looks
\* for the variant titled selectedProduct.variants[0]
TemplateOk(t) ==
  /\ cPc = "template"
  /\ Len(images) * t.variants <= MaxTasks
  /\ cVersion # "apiConnection" => t.wanted = 0
  /\ tpl' = t
  /\ CASE cVersion = "apiConnection" ->
            IF ~t.validId \/ t.variants = 0
            THEN /\ isCreating' = FALSE
                 /\ toasts' = Append(toasts, Toast("Template non valido", "destructive"))
                 /\ cPc' = "ended"
                 /\ UNCHANGED <<creationProgress, tasks, uploads, variantEntries, resolved,
                                sent>>
            ELSE /\ StartUploads(1)
                 /\ UNCHANGED <<isCreating, creationProgress, toasts>>
       [] cVersion = "part002" ->
            IF t.variants = 0
            THEN /\ toasts' = Append(toasts, Toast("Template error", "destructive"))
                 /\ isCreating' = FALSE
                 /\ cPc' = "ended"
                 /\ UNCHANGED <<creationProgress, tasks, uploads, variantEntries, resolved,
                                sent>>
            ELSE /\ StartUploads(t.variants)
                 /\ UNCHANGED <<isCreating, creationProgress, toasts>>
       [] OTHER ->
            IF ~t.validId \/ t.variants = 0
            THEN \* throw new Error("Template non valido o senza varianti.")
                 /\ Catch
                 /\ UNCHANGED <<tasks, uploads, variantEntries, resolved, sent>>
            ELSE /\ StartUploads(t.variants)
                 /\ UNCHANGED <<isCreating, creationProgress, toasts>>
  /\ UNCHANGED <<cVersion, bulkStatus, images, selectedProduct, fitMode, createdProducts,
                 payload, runResults>>
  /\ UNCHANGED otherThanClient

\* pub.publicUrl of the upload sent for image k, variant v
PublicUrl(k, v) == <<k, v>>

\* v?.imagePlaceholders?.[0]?.name || tpl?.imagePlaceholders?.[0]?.name || "front",
\* mutated: the template's name comes first
PlaceholderNameTemplateFirst(v) ==
  IF tpl.placeholder # "" THEN tpl.placeholder
  ELSE IF tpl.placeholders[v] # "" THEN tpl.placeholders[v]
  ELSE "front"

\* v?.imagePlaceholders?.[0]?.name || tpl?.imagePlaceholders?.[0]?.name || "front"
PlaceholderName(v) ==
  IF tpl.placeholders[v] # "" THEN tpl.placeholders[v]
  ELSE IF tpl.placeholder # "" THEN tpl.placeholder
  ELSE "front"

\* the payload entry of template variant v (its id is its position in
\* tpl.variants) with the uploaded file at url
VariantEntry(v, url) ==
  [templateVariantId |-> v,
   imagePlaceholders |-> <<[name |-> PlaceholderName(v), fileUrl |-> url]>>]

\* tplVariants.find((v) => v.title === wantedVariantTitle) || tplVariants[0]
ChosenVariant == IF tpl.wanted > 0 THEN tpl.wanted ELSE 1

\* the product the callback of image k returns: in part002 Promise.all keeps the
\* order of tplVariants.map; part003 returns the variantEntries its for loop pushed
\* (entries); bulkCreator sends selectedProduct.variants[0] (id 0: not a variant of
\* a fetched template) and selectedProduct.printAreas[0]
ProductOf(k, entries) ==
  [image |-> images[k],
   variants |->
     CASE cVersion = "bulkCreator" ->
            <<[templateVariantId |-> 0,
               imagePlaceholders |->
                 <<[name |-> "printArea", fileUrl |-> PublicUrl(k, 1)]>>]>>
       [] cVersion = "apiConnection" ->
            <<VariantEntry(ChosenVariant, PublicUrl(k, 1))>>
       [] cVersion = "part002" ->
            [v \in 1..tpl.variants |-> VariantEntry(v, PublicUrl(k, v))]
       [] OTHER -> entries[k]]

\* the products array handed to bulkCreate, mutated: the products in the reverse
\* order of the images
ProductsReversed(entries) ==
  [k \in 1..Len(images) |-> ProductOf(Len(images) + 1 - k, entries)]

\* the products array handed to bulkCreate: Promise.all keeps the order of
\* images.map whatever the order in which the callbacks resolve
Products(entries) ==
  [k \in 1..Len(images) |-> ProductOf(k, entries)]

\* number of payload variants of the run
RunVariants == IF cVersion \in {"bulkCreator", "apiConnection"} THEN 1 ELSE tpl.variants

\* a task of the run settled: when Promise.all is still awaited it rejects on a
\* failure (the catch runs) and resolves once every task is done (bulkCreate is
\* called); a handler that has ended is not affected
Settle(newTasks, entries) ==
  IF cPc # "uploads"
  THEN UNCHANGED <<cPc, isCreating, creationProgress, toasts, payload, sent>>
  ELSE IF \E p \in DOMAIN newTasks : newTasks[p] = "failed"
  THEN Catch /\ UNCHANGED <<payload, sent>>
  ELSE IF \A p \in DOMAIN newTasks : newTasks[p] = "done"
  THEN /\ payload' = Products(entries)
       /\ sent' = [c \in Credentials |-> sent[c] \cup {BulkRequest(c)}]
       /\ cPc' = "bulk"
       /\ UNCHANGED <<isCreating, creationProgress, toasts>>
  ELSE UNCHANGED <<cPc, isCreating, creationProgress, toasts, payload, sent>>

\* transformForVariant / makeVariantImage resolves: uploadAndGetPublicUrl is called
TransformOk(k, v) ==
  /\ <<k, v>> \in DOMAIN tasks
  /\ tasks[<<k, v>>] = "transform"
  /\ tasks' = [tasks EXCEPT ![<<k, v>>] = "uploading"]
  /\ uploads' = [uploads EXCEPT ![<<k, v>>] = @ + 1]
  /\ sent' = [c \in Credentials |-> sent[c] \cup {UploadRequest(c, k, v)}]
  /\ UNCHANGED <<cPc, cVersion, bulkStatus, images, selectedProduct, fitMode, isCreating,
                 creationProgress, createdProducts, tpl, variantEntries, resolved, payload,
                 runResults, toasts>>
  /\ UNCHANGED otherThanClient

\* the image does not decode: transformForVariant / makeVariantImage rejects
TransformFails(k, v) ==
  /\ <<k, v>> \in DOMAIN tasks
  /\ tasks[<<k, v>>] = "transform"
  /\ tasks' = [tasks EXCEPT ![<<k, v>>] = "failed"]
  /\ Settle(tasks', variantEntries)
  /\ UNCHANGED <<cVersion, bulkStatus, images, selectedProduct, fitMode, createdProducts, tpl,
                 uploads, variantEntries, resolved, runResults>>
  /\ UNCHANGED otherThanClient

\* the storage upload succeeded; in part003 the entry is pushed to variantEntries
\* and the for loop goes on to the next variant
UploadOk(k, v) ==
  /\ <<k, v>> \in DOMAIN tasks
  /\ tasks[<<k, v>>] = "uploading"
  /\ tasks' = [p \in DOMAIN tasks |->
                 IF p = <<k, v>> THEN "done"
                 ELSE IF cVersion = "part003" /\ p = <<k, v + 1>> THEN "transform"
                 ELSE tasks[p]]
  /\ variantEntries' =
       IF cVersion = "part003"
       THEN [variantEntries EXCEPT ![k] = Append(@, VariantEntry(v, PublicUrl(k, v)))]
       ELSE variantEntries
  /\ resolved' = IF \A u \in 1..RunVariants : tasks'[<<k, u>>] = "done"
                 THEN Append(resolved, k)
                 ELSE resolved
  /\ Settle(tasks', variantEntries')
  /\ UNCHANGED <<cVersion, bulkStatus, images, selectedProduct, fitMode, createdProducts, tpl,
                 uploads, runResults>>
  /\ UNCHANGED otherThanClient

\* the storage upload failed: if (error) throw error
UploadFails(k, v) ==
  /\ <<k, v>> \in DOMAIN tasks
  /\ tasks[<<k, v>>] = "uploading"
  /\ tasks' = [tasks EXCEPT ![<<k, v>>] = "failed"]
  /\ Settle(tasks', variantEntries)
  /\ UNCHANGED <<cVersion, bulkStatus, images, selectedProduct, fitMode, createdProducts, tpl,
                 uploads, variantEntries, resolved, runResults>>
  /\ UNCHANGED otherThanClient

\* bulkCreate rejects: the fetch failed (no response) or the function answered 500
BulkThrows ==
  /\ cPc = "bulk"
  /\ bulkStatus' \in {NoStatus, 500}
  /\ Catch
  /\ UNCHANGED <<cVersion, images, selectedProduct, fitMode, createdProducts, tpl,
                 tasks, uploads, variantEntries, resolved, sent, payload, runResults>>
  /\ UNCHANGED otherThanClient

\* the edge function (revision version) answers with the results res, mutated:
\* the results are taken from the body whatever the status
BulkResponseReadsBody(version, res) ==
  /\ cPc = "bulk"
  /\ Len(res) = Len(payload)
  /\ bulkStatus' = ResultsStatus(version, [k \in 1..Len(res) |-> [status |-> res[k]]])
  /\ runResults' = res
  /\ createdProducts' = res
  /\ creationProgress' = 100
  /\ isCreating' = FALSE
  /\ toasts' = Append(toasts, ResultToast(res))
  /\ cPc' = "ended"
  /\ UNCHANGED <<cVersion, images, selectedProduct, fitMode, tpl, tasks, uploads,
                 variantEntries, resolved, sent, payload>>
  /\ UNCHANGED otherThanClient

\* the edge function (revision version) answers with the results res, one per
\* product: supabaseFetch throws unless the status is ok
BulkResponse(version, res) ==
  /\ cPc = "bulk"
  /\ Len(res) = Len(payload)
  /\ bulkStatus' = ResultsStatus(version, [k \in 1..Len(res) |-> [status |-> res[k]]])
  /\ LET full == [k \in 1..Len(res) |-> [status |-> res[k]]]
     IN IF ResultsStatus(version, full) # 200
        THEN Catch /\ UNCHANGED <<createdProducts, runResults>>
        ELSE /\ runResults' = res
             /\ createdProducts' = res
             /\ creationProgress' = 100
             /\ isCreating' = FALSE
             /\ toasts' = Append(toasts, ResultToast(res))
             /\ cPc' = "ended"
  /\ UNCHANGED <<cVersion, images, selectedProduct, fitMode, tpl, tasks, uploads,
                 variantEntries, resolved, sent,
                 payload>>
  /\ UNCHANGED otherThanClient

\* the component is not in use
ClientIdle ==
  /\ cPc = "off"
  /\ cVersion = "bulkCreator"
  /\ images = <<>>
  /\ selectedProduct = [set |-> FALSE, uuid |-> FALSE, complete |-> FALSE]
  /\ fitMode = "stretch"
  /\ isCreating = FALSE
  /\ creationProgress = 0
  /\ createdProducts = <<>>
  /\ tpl = NoTemplate
  /\ tasks = NoTasks
  /\ uploads = NoUploads
  /\ variantEntries = <<>>
  /\ resolved = <<>>
  /\ sent = NoneSent
  /\ bulkStatus = NoStatus
  /\ payload = <<>>
  /\ runResults = <<>>
  /\ toasts = <<>>

\* the component as the Create button finds it: any images, any selection, the
\* results of an earlier run or none, no run under way
ClientStart ==
  /\ cPc = "ready"
  /\ cVersion \in ClientVersions
  /\ images \in {[k \in 1..n |-> k] : n \in 0..MaxImages}
  /\ selectedProduct \in
       {[set |-> FALSE, uuid |-> FALSE, complete |-> FALSE]} \cup
       [set : {TRUE}, uuid : BOOLEAN, complete : BOOLEAN]
  /\ fitMode \in FitModes
  /\ isCreating = FALSE
  /\ creationProgress \in {0, 100}
  /\ createdProducts \in {<<>>, <<"error">>}
  /\ (creationProgress = 100) <=> (createdProducts # <<>>)
  /\ tpl = NoTemplate
  /\ tasks = NoTasks
  /\ uploads = NoUploads
  /\ variantEntries = <<>>
  /\ resolved = <<>>
  /\ sent = NoneSent
  /\ bulkStatus = NoStatus
  /\ payload = <<>>
  /\ runResults = <<>>
  /\ toasts = <<>>

ClientNext ==
  \/ HandleCreateProducts
  \/ TemplateThrows
  \/ \E t \in Templates : TemplateOk(t)
  \/ \E k \in 1..MaxImages, v \in 1..MaxVariants : TransformOk(k, v)
  \/ \E k \in 1..MaxImages, v \in 1..MaxVariants : TransformFails(k, v)
  \/ \E k \in 1..MaxImages, v \in 1..MaxVariants : UploadOk(k, v)
  \/ \E k \in 1..MaxImages, v \in 1..MaxVariants : UploadFails(k, v)
  \/ BulkThrows
  \/ \E version \in EdgeVersions, res \in SeqsUpTo(ResultStatuses, MaxImages) :
       BulkResponse(version, res)

----------------------------------------------------------------------------
(***************************************************************************)
(* The wizard of the BulkCreator component: mount, ApiConnection,          *)
(* ImageUploader, ProductSelector and the Create button, in the same four  *)
(* revisions                                                               *)
(***************************************************************************)
\* localStorage.getItem(...) returned null
NoItem == [kind |-> "absent", value |-> NoCredentials]

\* what localStorage may hold under the credentials key when the page loads: nothing,
\* text that is not JSON, JSON without an apiKey or storeName, saved credentials
StoredItems ==
  {NoItem,
   [kind |-> "unparseable", value |-> NoCredentials],
   [kind |-> "incomplete", value |-> NoCredentials]}
    \cup {[kind |-> "creds", value |-> c] : c \in Credentials}

\* the revisions that keep the credentials in localStorage
StoringRevisions == {"part002", "part003"}

\* the products ProductSelector may hand to onProductSelect
SelectableProducts == [set : {TRUE}, uuid : BOOLEAN, complete : BOOLEAN]

\* {(!isConnected || currentStep === 1) && <ApiConnection .../>}
ApiConnectionRendered == ~isConnected \/ currentStep = 1

\* {(currentStep === 2 || images.length > 0) && isConnected && <ImageUploader .../>}
ImageUploaderRendered == (currentStep = 2 \/ images # <<>>) /\ isConnected

\* {(currentStep === 3 || selectedProduct) && images.length > 0 && <ProductSelector/>}
ProductSelectorRendered == (currentStep = 3 \/ selectedProduct.set) /\ images # <<>>

\* isCreating ? ... : hasSuccess ? ... : <Button onClick={handleCreateProducts}>
SuccessShown ==
  IF cVersion = "bulkCreator" THEN createdProducts # <<>> ELSE HasActive(createdProducts)

\* {currentStep === 4 && selectedProduct && ...} with the button shown and enabled
CreateButtonOffered ==
  /\ currentStep = 4 /\ selectedProduct.set
  /\ ~isCreating /\ ~SuccessShown
  /\ images # <<>>

\* the step after onImagesChange(newImages), mutated: a non-empty list always
\* sets step 3
StepAfterImagesAlwaysThree(newImages) ==
  IF newImages # <<>> THEN 3 ELSE currentStep

\* the step after onImagesChange(newImages): handleImagesChange, except in part003,
\* where ImageUploader is given setImages
StepAfterImages(newImages) ==
  CASE cVersion \in {"bulkCreator", "apiConnection"} ->
         (IF newImages # <<>> /\ currentStep = 2 THEN 3 ELSE currentStep)
    [] cVersion = "part002" ->
         (IF newImages # <<>> THEN Max(currentStep, 3) ELSE currentStep)
    [] OTHER -> currentStep

\* the step after handleProductSelect, called from a render that saw step seen
StepAfterSelect(seen) ==
  IF cVersion = "part002" THEN Max(currentStep, 4)
  ELSE IF seen = 3 THEN 4 ELSE currentStep

\* the ids in the list
Ids(list) == {list[k] : k \in 1..Len(list)}

RECURSIVE AddFresh(_, _)
\* [...images, ...newImages] for n new image files, each with an id of its own
AddFresh(list, n) ==
  IF n = 0 THEN list
  ELSE AddFresh(Append(list, CHOOSE id \in 1..MaxImages :
                               /\ id \notin Ids(list)
                               /\ \A other \in 1..(id - 1) : other \in Ids(list)),
                n - 1)

\* images.filter(img => img.id !== id)
Without(list, id) == SelectSeq(list, LAMBDA x : x # id)

\* the effect run at mount: part002 and part003 restore saved credentials
Mount ==
  /\ wPc = "mount"
  /\ wPc' = "mounted"
  /\ IF \/ cVersion = "part002" /\ stored.kind \in {"incomplete", "creds"}
        \/ cVersion = "part003" /\ stored.kind = "creds"
     THEN /\ credentials' = stored.value
          /\ isConnected' = TRUE
          /\ currentStep' = 2
     ELSE UNCHANGED <<credentials, isConnected, currentStep>>
  /\ UNCHANGED <<stored, connecting, pendingLoads>>
  /\ UNCHANGED <<cVersion, images, selectedProduct, isCreating, creationProgress,
                 createdProducts>>
  /\ UNCHANGED otherThanWizard

\* ApiConnection.handleConnect up to its await: the form holds creds
ConnectClicked(creds) ==
  /\ wPc = "mounted"
  /\ ApiConnectionRendered /\ ~isConnected
  /\ connecting = NoCredentials
  /\ connecting' = creds
  /\ UNCHANGED <<wPc, currentStep, isConnected, credentials, stored, pendingLoads>>
  /\ UNCHANGED <<cVersion, images, selectedProduct, isCreating, creationProgress,
                 createdProducts>>
  /\ UNCHANGED otherThanWizard

\* the delay is over: onConnect, that is BulkCreator.handleConnect; saved says
\* localStorage.setItem did not throw
HandleConnect(saved) ==
  /\ connecting # NoCredentials
  /\ credentials' = connecting
  /\ isConnected' = TRUE
  /\ currentStep' = 2
  /\ stored' = IF cVersion \in StoringRevisions /\ saved
               THEN [kind |-> "creds", value |-> connecting]
               ELSE stored
  /\ connecting' = NoCredentials
  /\ UNCHANGED <<wPc, pendingLoads>>
  /\ UNCHANGED <<cVersion, images, selectedProduct, isCreating, creationProgress,
                 createdProducts>>
  /\ UNCHANGED otherThanWizard

\* onImagesChange(newImages) as the revision wires it
ImagesChange(newImages) ==
  /\ images' = newImages
  /\ currentStep' = StepAfterImages(newImages)
  /\ UNCHANGED <<wPc, isConnected, credentials, stored, connecting, pendingLoads>>
  /\ UNCHANGED <<cVersion, selectedProduct, isCreating, creationProgress,
                 createdProducts>>
  /\ UNCHANGED otherThanWizard

\* ImageUploader.processFiles: n of the dropped files are images
ProcessFiles(n) ==
  /\ wPc = "mounted"
  /\ ImageUploaderRendered
  /\ Len(images) + n <= MaxImages
  /\ ImagesChange(AddFresh(images, n))

\* ImageUploader.removeImage
RemoveImage(id) ==
  /\ wPc = "mounted"
  /\ ImageUploaderRendered
  /\ id \in Ids(images)
  /\ ImagesChange(Without(images, id))

\* ProductSelector.handleSampleSelect: onProductSelect from the current render
SampleSelect(product) ==
  /\ wPc = "mounted"
  /\ ProductSelectorRendered
  /\ selectedProduct' = product
  /\ currentStep' = StepAfterSelect(currentStep)
  /\ UNCHANGED <<wPc, isConnected, credentials, stored, connecting, pendingLoads>>
  /\ UNCHANGED <<cVersion, images, isCreating, creationProgress, createdProducts>>
  /\ UNCHANGED otherThanWizard

\* ProductSelector.handleProductLoad up to its await
ProductLoadClicked ==
  /\ wPc = "mounted"
  /\ ProductSelectorRendered
  /\ currentStep \notin pendingLoads
  /\ pendingLoads' = pendingLoads \cup {currentStep}
  /\ UNCHANGED <<wPc, currentStep, isConnected, credentials, stored, connecting>>
  /\ UNCHANGED <<cVersion, images, selectedProduct, isCreating, creationProgress,
                 createdProducts>>
  /\ UNCHANGED otherThanWizard

\* the load that started when the step was seen resolves: onProductSelect(product)
\* of that render is called, whether or not the selector is still shown
ProductLoaded(seen, product) ==
  /\ seen \in pendingLoads
  /\ pendingLoads' = pendingLoads \ {seen}
  /\ selectedProduct' = product
  /\ currentStep' = StepAfterSelect(seen)
  /\ UNCHANGED <<wPc, isConnected, credentials, stored, connecting>>
  /\ UNCHANGED <<cVersion, images, isCreating, creationProgress, createdProducts>>
  /\ UNCHANGED otherThanWizard

\* getTemplate rejects in the selector: a toast, no selection
ProductLoadFails(seen) ==
  /\ seen \in pendingLoads
  /\ pendingLoads' = pendingLoads \ {seen}
  /\ UNCHANGED <<wPc, currentStep, isConnected, credentials, stored, connecting>>
  /\ UNCHANGED <<cVersion, images, selectedProduct, isCreating, creationProgress,
                 createdProducts>>
  /\ UNCHANGED otherThanWizard

\* the Create button is clicked: what handleCreateProducts writes to the wizard's
\* state before its first await
CreateClicked ==
  /\ wPc = "mounted"
  /\ CreateButtonOffered
  /\ IF cVersion = "bulkCreator"
     THEN /\ isCreating' = selectedProduct.complete
          /\ creationProgress' = 0
     ELSE /\ isCreating' = selectedProduct.uuid
          /\ creationProgress' = IF selectedProduct.uuid THEN 0 ELSE creationProgress
  /\ UNCHANGED wizardVars
  /\ UNCHANGED <<cVersion, images, selectedProduct, createdProducts>>
  /\ UNCHANGED otherThanWizard

\* handleCreateProducts ends: what it writes to the wizard's state; ok says the
\* results res arrived, reset that the failing path clears the progress
CreateEnds(ok, reset, res) ==
  /\ isCreating
  /\ isCreating' = FALSE
  /\ IF ok
     THEN /\ res # <<>> /\ ~reset
          /\ createdProducts' = res
          /\ creationProgress' = 100
     ELSE /\ res = <<>>
          /\ cVersion = "bulkCreator" => reset
          /\ cVersion = "part003" => ~reset
          /\ creationProgress' = IF reset THEN 0 ELSE creationProgress
          /\ UNCHANGED createdProducts
  /\ UNCHANGED wizardVars
  /\ UNCHANGED <<cVersion, images, selectedProduct>>
  /\ UNCHANGED otherThanWizard

\* the component is not in use
WizardIdle ==
  /\ wPc = "off"
  /\ currentStep = 1
  /\ isConnected = FALSE
  /\ credentials = NoCredentials
  /\ stored = NoItem
  /\ connecting = NoCredentials
  /\ pendingLoads = {}

\* the wizard when the Create button is clicked
WizardAtCreate ==
  /\ wPc = "mounted"
  /\ currentStep = 4
  /\ isConnected = TRUE
  /\ credentials \in Credentials
  /\ stored = NoItem
  /\ connecting = NoCredentials
  /\ pendingLoads = {}

\* handleCreateProducts has not been called
RunIdle ==
  /\ cPc = "off"
  /\ fitMode = "stretch"
  /\ tpl = NoTemplate
  /\ tasks = NoTasks
  /\ uploads = NoUploads
  /\ variantEntries = <<>>
  /\ resolved = <<>>
  /\ sent = NoneSent
  /\ bulkStatus = NoStatus
  /\ payload = <<>>
  /\ runResults = <<>>
  /\ toasts = <<>>

\* the component is rendered for the first time, with whatever localStorage holds
WizardStart ==
  /\ wPc = "mount"
  /\ cVersion \in ClientVersions
  /\ currentStep = 1
  /\ isConnected = FALSE
  /\ credentials = NoCredentials
  /\ stored \in StoredItems
  /\ cVersion \notin StoringRevisions => stored = NoItem
  /\ connecting = NoCredentials
  /\ pendingLoads = {}
  /\ images = <<>>
  /\ selectedProduct = [set |-> FALSE, uuid |-> FALSE, complete |-> FALSE]
  /\ isCreating = FALSE
  /\ creationProgress = 0
  /\ createdProducts = <<>>
  /\ RunIdle

WizardNext ==
  \/ Mount
  \/ \E creds \in Credentials : ConnectClicked(creds)
  \/ \E saved \in BOOLEAN : HandleConnect(saved)
  \/ \E n \in 0..MaxImages : ProcessFiles(n)
  \/ \E id \in 1..MaxImages : RemoveImage(id)
  \/ \E product \in SelectableProducts : SampleSelect(product)
  \/ ProductLoadClicked
  \/ \E seen \in 1..4, product \in SelectableProducts : ProductLoaded(seen, product)
  \/ \E seen \in 1..4 : ProductLoadFails(seen)
  \/ CreateClicked
  \/ \E ok \in BOOLEAN, reset \in BOOLEAN, res \in SeqsUpTo(ResultStatuses, MaxImages) :
       CreateEnds(ok, reset, res)

----------------------------------------------------------------------------
(***************************************************************************)
(* The Create button after a run: handleCreateProducts is invoked again    *)
(* while callbacks of the earlier invocation may still be pending          *)
(***************************************************************************)
\* no earlier invocation
RerunIdle == stale = <<>>

\* the callbacks in ts that will still act: a transform or an upload is pending, or
\* (part003) the for loop of the image has yet to reach the variant
Pending(ts) ==
  {p \in DOMAIN ts :
     \/ ts[p] \in {"transform", "uploading"}
     \/ /\ ts[p] = "waiting"
        /\ \E u \in 1..(p[2] - 1) : ts[<<p[1], u>>] \in {"transform", "uploading"}}

\* the callbacks in ts that will still act, each where it stands
Unsettled(ts) == [p \in Pending(ts) |-> ts[p]]

\* the templates getTemplate returns in the repeated runs: no placeholder names,
\* no variant title to look for
RerunTemplates ==
  {t \in Templates : /\ t.placeholder = "" /\ t.wanted = 0
                     /\ \A v \in 1..t.variants : t.placeholders[v] = ""}

\* the statuses the edge function reports in the repeated runs
RerunStatuses == {"error", "active"}

\* the handler has returned and the component is rendered with the Create button
\* again: the next click starts a new invocation, whose records start empty; the
\* image and variant callbacks of the invocation that ended stay where they are
CreateOfferedAgain ==
  /\ cPc = "ended"
  /\ wPc = "mounted"
  /\ CreateButtonOffered
  /\ Len(stale) < MaxReruns
  /\ stale' = Append(stale, Unsettled(tasks))
  /\ cPc' = "ready"
  /\ tpl' = NoTemplate
  /\ tasks' = NoTasks
  /\ uploads' = NoUploads
  /\ variantEntries' = <<>>
  /\ resolved' = <<>>
  /\ sent' = NoneSent
  /\ bulkStatus' = NoStatus
  /\ payload' = <<>>
  /\ runResults' = <<>>
  /\ toasts' = <<>>
  /\ UNCHANGED <<cVersion, images, selectedProduct, fitMode, isCreating,
                 creationProgress, createdProducts>>
  /\ UNCHANGED otherThanRerun

\* transformForVariant / makeVariantImage settles in a callback of the earlier
\* invocation r: on success uploadAndGetPublicUrl is called, nothing having
\* cancelled the callback
StaleTransformSettles(r, k, v, ok) ==
  /\ r \in 1..Len(stale)
  /\ <<k, v>> \in DOMAIN stale[r]
  /\ stale[r][<<k, v>>] = "transform"
  /\ stale' = [stale EXCEPT ![r] =
                 Unsettled([@ EXCEPT ![<<k, v>>] = IF ok THEN "uploading" ELSE "failed"])]
  /\ UNCHANGED clientVars
  /\ UNCHANGED otherThanRerun

\* the storage upload of a callback of the earlier invocation r settles; in part003
\* the for loop of that callback goes on to the next variant
StaleUploadSettles(r, k, v, ok) ==
  /\ r \in 1..Len(stale)
  /\ <<k, v>> \in DOMAIN stale[r]
  /\ stale[r][<<k, v>>] = "uploading"
  /\ stale' = [stale EXCEPT ![r] =
                 Unsettled([p \in DOMAIN stale[r] |->
                              IF p = <<k, v>> THEN (IF ok THEN "done" ELSE "failed")
                              ELSE IF ok /\ cVersion = "part003" /\ p = <<k, v + 1>>
                              THEN "transform"
                              ELSE stale[r][p]])]
  /\ UNCHANGED clientVars
  /\ UNCHANGED otherThanRerun

\* an await of the run settles: the template fetch, an image transform, a storage
\* upload or the bulk-create call resolves or rejects
AwaitSettles ==
  \/ TemplateThrows
  \/ \E t \in RerunTemplates : TemplateOk(t)
  \/ \E k \in 1..MaxImages, v \in 1..MaxVariants : TransformOk(k, v)
  \/ \E k \in 1..MaxImages, v \in 1..MaxVariants : TransformFails(k, v)
  \/ \E k \in 1..MaxImages, v \in 1..MaxVariants : UploadOk(k, v)
  \/ \E k \in 1..MaxImages, v \in 1..MaxVariants : UploadFails(k, v)
  \/ BulkThrows
  \/ \E version \in EdgeVersions, res \in SeqsUpTo(RerunStatuses, MaxImages) :
       BulkResponse(version, res)

RunNext == HandleCreateProducts \/ AwaitSettles

RerunNext ==
  \/ RunNext
  \/ CreateOfferedAgain
  \/ \E r \in 1..MaxReruns, k \in 1..MaxImages, v \in 1..MaxVariants, ok \in BOOLEAN :
       StaleTransformSettles(r, k, v, ok)
  \/ \E r \in 1..MaxReruns, k \in 1..MaxImages, v \in 1..MaxVariants, ok \in BOOLEAN :
       StaleUploadSettles(r, k, v, ok)

----------------------------------------------------------------------------
(***************************************************************************)
(* makeVariantImage of part003: fileToImage, drawFit, canvasToPngBlob      *)
(***************************************************************************)
\* makeVariantImage is not running
LoadIdle ==
  /\ mPc = "off"
  /\ fileW = 1
  /\ fileH = 1
  /\ imgState = "none"
  /\ seenW = 0
  /\ seenH = 0
  /\ revoked = FALSE

\* makeVariantImage is called on a file holding a picture of any size
LoadStart ==
  /\ mPc = "called"
  /\ fileW \in 1..MaxSrc
  /\ fileH \in 1..MaxSrc
  /\ imgState = "none"
  /\ seenW = 0
  /\ seenH = 0
  /\ revoked = FALSE

\* fileToImage up to its await: an object URL is made, a first Image is given the
\* URL and its load is awaited
FileToImage ==
  /\ mPc = "called"
  /\ mPc' = "probe"
  /\ UNCHANGED <<fileW, fileH, imgState, seenW, seenH, revoked>>
  /\ UNCHANGED otherThanLoad

\* the first Image fires error: rej(), fileToImage and makeVariantImage reject
ProbeFails ==
  /\ mPc = "probe"
  /\ mPc' = "failed"
  /\ UNCHANGED <<fileW, fileH, imgState, seenW, seenH, revoked>>
  /\ UNCHANGED otherThanLoad

\* src.width and src.height of an Image in the state st
WidthOf(st) == IF st = "available" THEN fileW ELSE 0

HeightOf(st) == IF st = "available" THEN fileH ELSE 0

\* the state of the second Image right after img.src = url: available at once when
\* the browser finds the URL in its list of available images (cached), otherwise
\* its load is a later task
StateAfterSrc(cached) == IF cached THEN "available" ELSE "pending"

\* the first Image fires load: res(); fileToImage makes a second Image, sets its
\* src and returns it; makeVariantImage goes on, with no task in between, to
\* drawFit, which reads src.width and src.height, and to canvas.toBlob
ProbeLoads(cached) ==
  /\ mPc = "probe"
  /\ imgState' = StateAfterSrc(cached)
  /\ seenW' = WidthOf(imgState')
  /\ seenH' = HeightOf(imgState')
  /\ mPc' = "encoding"
  /\ UNCHANGED <<fileW, fileH, revoked>>
  /\ UNCHANGED otherThanLoad

\* the load of the second Image ends; nothing listens to it; after the URL was
\* revoked a load that had not fetched the data fails
ImgSettles(ok) ==
  /\ imgState = "pending"
  /\ revoked => ~ok
  /\ imgState' = IF ok THEN "available" ELSE "broken"
  /\ UNCHANGED <<mPc, fileW, fileH, seenW, seenH, revoked>>
  /\ UNCHANGED otherThanLoad

\* canvas.toBlob calls back: URL.revokeObjectURL(img.src); return blob
BlobReady ==
  /\ mPc = "encoding"
  /\ revoked' = TRUE
  /\ mPc' = "done"
  /\ UNCHANGED <<fileW, fileH, imgState, seenW, seenH>>
  /\ UNCHANGED otherThanLoad

LoadNext ==
  \/ FileToImage
  \/ ProbeFails
  \/ \E cached \in BOOLEAN : ProbeLoads(cached)
  \/ \E ok \in BOOLEAN : ImgSettles(ok)
  \/ BlobReady

----------------------------------------------------------------------------
EdgeInit ==
  /\ ePc = "idle"
  /\ eVersion = "index"
  /\ request = NoRequest
  /\ i = 0
  /\ results = <<>>
  /\ attempt = 0
  /\ response = NoResponse
  /\ createLog = <<>>
  /\ inFlight = {}
  /\ pollRequests = 0
  /\ polled = {}
  /\ firstTerminal = "none"
  /\ slept = FALSE

EdgeNext ==
  \/ \E req \in Requests, version \in EdgeVersions : Serve(req, version)
  \/ CreateFetch
  \/ CreateNotOk
  \/ CreateThrows
  \/ CreateOk
  \/ PollFetch
  \/ \E ok \in BOOLEAN, status \in ApiStatuses : PollResponse(ok, status)
  \/ PollThrows
  \/ PollWait
  \/ PollTimeout
  \/ Respond

Init == EdgeInit /\ FitIdle /\ ClientIdle /\ WizardIdle /\ RerunIdle /\ LoadIdle

Next == EdgeNext

Spec == Init /\ [][Next]_vars

\* every await of the handler settles: fetch resolves or rejects, timers fire
FairSpec == Spec /\ WF_vars(Next)

FitInit == FitStart /\ EdgeInit /\ ClientIdle /\ WizardIdle /\ RerunIdle /\ LoadIdle

\* one run of the fit pipeline on arbitrary arguments
FitSpec == FitInit /\ [][FitNext]_vars

ClientInit == ClientStart /\ EdgeInit /\ FitIdle /\ WizardAtCreate /\ RerunIdle /\ LoadIdle

\* one invocation of handleCreateProducts, from any state of the component
ClientSpec == ClientInit /\ [][ClientNext]_vars

WizardInit == WizardStart /\ EdgeInit /\ FitIdle /\ RerunIdle /\ LoadIdle

\* the component from its first render on, under any sequence of user actions
WizardSpec == WizardInit /\ [][WizardNext]_vars

\* the component as the Create button finds it, in the session of one user
RerunInit == ClientInit /\ credentials.apiKey = "keyA"

\* one invocation of handleCreateProducts in which every pending await settles
FairRunSpec == RerunInit /\ [][RunNext]_vars /\ WF_vars(AwaitSettles)

\* handleCreateProducts, invoked again whenever the Create button is offered
RerunSpec == RerunInit /\ [][RerunNext]_vars

LoadInit ==
  LoadStart /\ EdgeInit /\ FitIdle /\ ClientIdle /\ WizardIdle /\ RerunIdle

\* one call of makeVariantImage
LoadSpec == LoadInit /\ [][LoadNext]_vars

----------------------------------------------------------------------------
(***************************************************************************)
(* Properties of the edge function                                         *)
(***************************************************************************)

\* the request ran the loop: POST, secrets configured, body parsed
RanBatch ==
  request.method = "POST" /\ request.configured /\ request.wellFormed

PollPcs == {"pollLoop", "pollAwait", "pollWait"}

\* the poll of product i - 1 has just returned and its result is results[i]
PollReturned ==
  /\ ePc = "loop"
  /\ i > 0
  /\ (i - 1) \in polled
  /\ results[i].error = "none"

\* C1: when a well-formed request has been answered, results holds exactly one
\* entry per requested product, in request order, and a create request was
\* sent for every product, whatever failed on the way.
C1_OneResultPerProduct ==
  (ePc = "done" /\ RanBatch) =>
    /\ response.body = "results"
    /\ Len(results) = Len(request.products)
    /\ \A k \in 1..Len(results) : results[k].title = request.products[k]
    /\ createLog = [k \in 1..Len(request.products) |-> k - 1]

\* C1 witness: the first product failed and the second was still created and polled
C1_Witness ==
  /\ ePc = "done" /\ RanBatch
  /\ request.products = <<"a", "b">>
  /\ Len(results) = 2
  /\ results[1].status = "error"
  /\ results[2].status = "publishing_error"

\* C2: pollProductStatus returns "timeout" exactly when no attempt got an ok
\* response with status active or publishing_error; otherwise it returns the
\* first such status; it returns no other status.
C2_PollResult ==
  PollReturned =>
    /\ results[i].status \in {"active", "publishing_error", "timeout"}
    /\ (results[i].status = "timeout") <=> (firstTerminal = "none")
    /\ (results[i].status # "timeout") => (results[i].status = firstTerminal)

\* C2 witness: a poll that saw non-terminal responses and then publishing_error
C2_Witness ==
  /\ PollReturned
  /\ results[i].status = "publishing_error"
  /\ attempt > 1

\* C2 witness of the other side is part of C3's: a poll that ran out of attempts

\* C3: pollProductStatus sends at most maxAttempts status requests for a product
\* and every poll that starts returns.
C3_PollBounded ==
  /\ [](pollRequests <= maxAttempts)
  /\ (ePc \in PollPcs) ~> (ePc = "loop")

\* C3 witness: a poll that used all its attempts, the last one throwing, timed out
C3_Witness ==
  /\ PollReturned
  /\ results[i].status = "timeout"
  /\ pollRequests = maxAttempts
  /\ ~slept

\* C4: products are processed one at a time: when the create request of a
\* product is sent every earlier product has its result, and at most one
\* product is in flight.
C4_Sequential ==
  /\ Cardinality(inFlight) <= 1
  /\ createLog # <<>> => Len(results) >= createLog[Len(createLog)]
  /\ ePc = "createAwait" => inFlight = {i} /\ Len(results) = i

\* C4 witness: the second create request is out after the first product was polled
C4_Witness ==
  /\ ePc = "createAwait"
  /\ i = 1
  /\ 0 \in polled
  /\ Len(results) = 1

\* C15: one create request is sent per product and none is sent again; a product
\* is polled only after its own create request was sent and answered ok, so a
\* product whose create request failed or threw is never polled.
C15_CreateOnceThenPoll ==
  /\ \A k \in 1..Len(createLog) : createLog[k] = k - 1
  /\ (ePc = "done" /\ RanBatch) => Len(createLog) = Len(request.products)
  /\ ePc \in PollPcs => i \in polled /\ createLog[Len(createLog)] = i
  /\ \A p \in polled :
       /\ \E k \in 1..Len(createLog) : createLog[k] = p
       /\ IF p < Len(results) THEN results[p + 1].error = "none"
          ELSE p = i /\ ePc \in PollPcs
  /\ \A k \in 1..Len(results) :
       results[k].error \in {"http", "thrown"} => (k - 1) \notin polled

\* C15 witness: the create request of the first product threw and it was not
\* polled, the second product was created and polled
C15_Witness ==
  /\ ePc = "done" /\ RanBatch
  /\ Len(request.products) = 2
  /\ results[1].error = "thrown"
  /\ results[2].error = "none"
  /\ polled = {1}
  /\ createLog = <<0, 1>>

\* C16: the revision that answers 400 does so exactly when the batch ran and every
\* result has status "error"; a batch with a "timeout", "publishing_error" or
\* "active" result is answered 200.
C16_AllErrorsOnly400 ==
  (ePc = "done" /\ RanBatch /\ eVersion = "trim") =>
    /\ response.status \in {200, 400}
    /\ (response.status = 400) <=>
         (Len(results) > 0 /\ \A k \in 1..Len(results) : results[k].status = "error")

\* C5: every status request after the first one of a poll is sent only after
\* the poll interval elapsed since the previous request.
C5_WaitBetweenRequests ==
  [][PollFetch => (pollRequests = 0 \/ slept)]_vars

----------------------------------------------------------------------------
(***************************************************************************)
(* Properties of the fit pipeline                                          *)
(***************************************************************************)
Abs(a) == IF a < 0 THEN -a ELSE a

\* an image was generated in one of the two scaling modes
Fitted == fPc = "drawn" /\ fMode \in {"stretch", "preserve"}

\* c is the raw size raw2 / 2, rounded to the nearest pixel (half way rounds up)
IsRounded(c, raw2) == 2 * c - 1 <= raw2 /\ raw2 < 2 * c + 1

\* drawImage maps the source rectangle crop onto the canvas rectangle dest, so
\* the whole source image lands on the canvas rectangle with
\*   left  = ImgLeft / (dest.den * crop.w),   right  = ImgRight / (dest.den * crop.w)
\*   top   = ImgTop / (dest.den * crop.h),    bottom = ImgBottom / (dest.den * crop.h)
ImgLeft == dest.x * crop.w - crop.x * dest.w

ImgRight == ImgLeft + srcW * crop.den * dest.w

ImgTop == dest.y * crop.h - crop.y * dest.h

ImgBottom == ImgTop + srcH * crop.den * dest.h

\* the horizontal and the vertical scale of the draw differ by so little that the
\* drawn image is within one pixel of the source's aspect ratio
UniformScale ==
  Min(srcW, srcH) * crop.den * Abs(dest.w * crop.h - dest.h * crop.w)
    <= dest.den * crop.w * crop.h

C10_PreserveContains ==
  (fPc = "drawn" /\ fMode = "preserve" /\ canvas # NoCanvas) =>
    /\ crop = [x |-> 0, y |-> 0, w |-> srcW, h |-> srcH, den |-> 1]
    /\ dest.den = 1
    /\ dest.x >= 0 /\ dest.y >= 0
    /\ dest.x + dest.w <= canvas.w
    /\ dest.y + dest.h <= canvas.h
    /\ dest.w = canvas.w \/ dest.h = canvas.h
    /\ UniformScale
    /\ Abs(2 * dest.x + dest.w - canvas.w) <= 1
    /\ Abs(2 * dest.y + dest.h - canvas.h) <= 1

\* C10 witness: drawFit letterboxes a wide source with unequal margins
C10_Witness ==
  /\ fPc = "drawn" /\ fMode = "preserve"
  /\ fVersion = "drawFit"
  /\ dest.w = canvas.w
  /\ dest.y > 0
  /\ 2 * dest.y + dest.h # canvas.h

----------------------------------------------------------------------------
(***************************************************************************)
(* Properties of handleCreateProducts                                      *)
(***************************************************************************)
RECURSIVE SumUploads(_, _)
\* storage uploads sent for the variants 1..v of image k
SumUploads(k, v) ==
  IF v = 0 THEN 0 ELSE uploads[<<k, v>>] + SumUploads(k, v - 1)

\* storage uploads sent for image k
UploadsOfImage(k) == SumUploads(k, RunVariants)

\* C6 as stated: a run that reaches bulkCreate has sent exactly one storage
\* upload per image, and no upload waits for another one to complete.
C6_OneUploadPerImage ==
  /\ payload # <<>> => \A k \in 1..Len(images) : UploadsOfImage(k) = 1
  /\ \A p \in DOMAIN tasks : tasks[p] # "waiting"

\* C6 amended: a run sends at most one storage upload per image and payload
\* variant, and exactly one for each by the time it calls bulkCreate (one per
\* image only where the product has one variant); the uploads of different
\* images start independently of each other: an upload that has not started yet
\* waits for an earlier variant of the same image only.
C6_OneUploadPerVariant ==
  /\ \A p \in DOMAIN uploads : uploads[p] <= 1
  /\ payload # <<>> =>
       /\ DOMAIN uploads = Pairs(Len(images), RunVariants)
       /\ \A p \in DOMAIN uploads : uploads[p] = 1
  /\ \A p \in DOMAIN tasks :
       tasks[p] = "waiting" =>
         \E u \in 1..(p[2] - 1) :
           tasks[<<p[1], u>>] \in {"transform", "uploading", "failed"}

\* C6 witness: two images and a template of two variants reached bulkCreate
C6_Witness ==
  /\ cPc = "bulk"
  /\ cVersion = "part003"
  /\ Len(images) = 2
  /\ tpl.variants = 2
  /\ UploadsOfImage(1) = 2 /\ UploadsOfImage(2) = 2

\* C7: an invocation with at least one image and a selected product emits one
\* toast, never more, and the toast is destructive unless the run received a
\* result with status active.
C7_OneToast ==
  /\ Len(toasts) <= 1
  /\ (cPc = "ended" /\ images # <<>> /\ selectedProduct.set) =>
       /\ Len(toasts) = 1
       /\ ~HasActive(runResults) => toasts[1].variant = "destructive"

\* C7 witness: an ok response without any active product ended the run
C7_Witness ==
  /\ cPc = "ended"
  /\ Len(images) = 2
  /\ runResults = <<"timeout", "error">>
  /\ toasts = <<Toast("Product Creation Failed", "destructive")>>

\* the revisions that send every variant of the fetched template
AllVariantRevisions == {"part002", "part003"}

\* C11: in the payload of part_002 and part_003 every product has one entry per
\* variant of the fetched template, in template order, with that variant's id and
\* exactly one image placeholder, whose fileUrl is the public URL of a completed
\* upload and whose name is the variant's first placeholder name, else the
\* template's, else "front".
C11_PayloadVariants ==
  (cVersion \in AllVariantRevisions /\ payload # <<>>) =>
    \A k \in 1..Len(payload) :
      /\ Len(payload[k].variants) = tpl.variants
      /\ \A v \in 1..Len(payload[k].variants) :
           LET entry == payload[k].variants[v]
               slot == entry.imagePlaceholders[1]
           IN /\ entry.templateVariantId = v
              /\ Len(entry.imagePlaceholders) = 1
              /\ slot.fileUrl \in DOMAIN uploads
              /\ uploads[slot.fileUrl] >= 1
              /\ tasks[slot.fileUrl] = "done"
              /\ tpl.placeholders[v] # "" => slot.name = tpl.placeholders[v]
              /\ (tpl.placeholders[v] = "" /\ tpl.placeholder # "") =>
                   slot.name = tpl.placeholder
              /\ (tpl.placeholders[v] = "" /\ tpl.placeholder = "") =>
                   slot.name = "front"

\* C11 witness: a payload for a two-variant template whose first variant names no
\* placeholder and whose second variant does
C11_Witness ==
  /\ cPc = "bulk"
  /\ cVersion = "part003"
  /\ Len(images) = 2
  /\ tpl.placeholders = <<"", "variantSlot">>
  /\ tpl.placeholder = "templateSlot"
  /\ payload[2].variants[1].imagePlaceholders[1].name = "templateSlot"
  /\ payload[2].variants[2].imagePlaceholders[1].name = "variantSlot"

C14_CredentialsStayLocal ==
  /\ \A r \in sent[credentials] :
       {r.authorization, r.storeId} \cap {credentials.apiKey, credentials.storeName} = {}
  /\ \A c \in Credentials : sent[c] = sent[credentials]

\* C14 witness: a connected session sent a template fetch, an upload and the bulk
\* create request
C14_Witness ==
  /\ credentials \in Credentials
  /\ {r.kind : r \in sent[credentials]} = {"getTemplate", "upload", "bulkCreate"}

\* C17: when the bulk-create response is not ok (400 or 500) the run ends without
\* the results: createdProducts keeps its value, the progress is not 100, the one
\* toast is "Error creating products"; the "Product Creation Failed" toast is
\* shown only after an ok response without an active result.
C17_NotOkResponseThrows ==
  /\ [](bulkStatus \in {400, 500} =>
         /\ cPc = "ended"
         /\ runResults = <<>>
         /\ ~isCreating
         /\ creationProgress # 100
         /\ toasts = <<Toast("Error creating products", "destructive")>>)
  /\ [][bulkStatus' \in {400, 500} => createdProducts' = createdProducts]_vars
  /\ [](\A k \in 1..Len(toasts) :
          toasts[k].title = "Product Creation Failed" =>
            bulkStatus = 200 /\ runResults # <<>> /\ ~HasActive(runResults))

\* C17 witness: the function answered 400 to a batch of two products and the
\* results of the earlier run are still shown
C17_Witness ==
  /\ cPc = "ended"
  /\ bulkStatus = 400
  /\ Len(payload) = 2
  /\ createdProducts = <<"error">>
  /\ toasts = <<Toast("Error creating products", "destructive")>>

\* the revisions whose handleCreateProducts tests the id of the selected product
UuidGuardRevisions == {"apiConnection", "part002", "part003"}

----------------------------------------------------------------------------
(***************************************************************************)
(* Properties of the wizard                                                *)
(***************************************************************************)
\* C12: currentStep is always one of 1, 2, 3, 4 and no step of the wizard (mount,
\* connect, images added or removed, product selected, create) decreases it.
C12_LinearWizard ==
  /\ [](currentStep \in 1..4)
  /\ [][currentStep' >= currentStep]_vars

\* C12 witness: the wizard went through all four steps and products were created
C12_Witness ==
  /\ currentStep = 4
  /\ cVersion = "bulkCreator"
  /\ isConnected /\ Len(images) = 2 /\ selectedProduct.set
  /\ createdProducts # <<>>

\* a non-empty image list is reported by the uploader while the store is connected
ImagesReported == isConnected /\ images' # images /\ images' # <<>>

\* C19: whenever the image uploader reports a non-empty image list while the store
\* is connected, currentStep is at least 3 afterwards and the product selector is
\* rendered.
C19_ImagesAdvanceToStepThree ==
  [][ImagesReported =>
       /\ currentStep' >= 3
       /\ (currentStep' = 3 \/ selectedProduct'.set) /\ images' # <<>>]_vars

\* C20: in every state in which the store is connected and the image list is
\* empty, the image uploader is rendered.
C20_UploaderAlwaysThere ==
  (wPc = "mounted" /\ isConnected /\ images = <<>>) => ImageUploaderRendered

\* C22: when every template fetch, image transform, upload and bulk-create call
\* settles, a run that set isCreating to true ends with isCreating false, on every
\* path.
C22_CreatingEnds == isCreating ~> (~isCreating /\ cPc = "ended")

\* a run that set isCreating and ended in the catch block after an upload failed
C22_Witness ==
  /\ cPc = "ended" /\ ~isCreating
  /\ cVersion = "part002"
  /\ \E p \in DOMAIN tasks : tasks[p] = "failed"
  /\ \E p \in DOMAIN tasks : tasks[p] = "done"
  /\ toasts = <<Toast("Error creating products", "destructive")>>

----------------------------------------------------------------------------
(***************************************************************************)
(* Properties of repeated runs                                             *)
(***************************************************************************)
\* the handler is between its guards and its end
HandlerRunning == cPc \in {"template", "uploads", "bulk"}

\* the pairs whose storage upload is in flight
Uploading(ts) == {p \in DOMAIN ts : ts[p] = "uploading"}

\* while a handler is between its guards and its end, isCreating is true and the
\* Create button is not offered
C21_ButtonHeldBack == HandlerRunning => (isCreating /\ ~CreateButtonOffered)

\* C21: at most one creation run is in flight: while a run is between its guards
\* and its end isCreating is true and the Create button is not offered, and no
\* image is being uploaded by two runs at once.
C21_OneRunInFlight ==
  /\ C21_ButtonHeldBack
  /\ \A r \in 1..Len(stale) :
       \A p \in Uploading(tasks), q \in Uploading(stale[r]) : p[1] # q[1]

----------------------------------------------------------------------------
(***************************************************************************)
(* Properties of makeVariantImage                                          *)
(***************************************************************************)
\* drawFit has run
Drawn == mPc \in {"encoding", "done"}

\* C23: the image handed to drawFit had completed loading when drawFit read its
\* width and height: drawFit saw the natural size of the picture.
C23_LoadedBeforeDraw == Drawn => (seenW = fileW /\ seenH = fileH)

====
